---------------------------- MODULE Spec2Model ----------------------------
(***************************************************************************)
(* Model of src/src/network_simulator.py: the discrete-event simulator of  *)
(* IEEE 802.1Qav credit-based shaping (Frame, CBSQueue, NetworkNode,       *)
(* NetworkSimulator).                                                      *)
(*                                                                         *)
(* Units.  Time is counted in ticks and rates in bits per tick, so that    *)
(* every float of the program is an integer of the model: one "Mbps" of    *)
(* the program is Mega bits per tick here.  Frame sizes are bytes.  The    *)
(* parameters below are chosen so that every division of the program is    *)
(* exact.  None (an unset Optional) is the value NONE.                     *)
(***************************************************************************)
EXTENDS Integers, Sequences, FiniteSets, TLC

(***************************************************************************)
(* Bounds of the model.                                                    *)
(***************************************************************************)
MaxFrames == 4        \* frames created by generate_traffic for a simulator
MaxGenCalls == 2      \* calls of generate_traffic
MaxRuns == 2          \* calls of run
MaxQueueSize == 2     \* queue capacity (the program uses 100), scaled
MaxReplayedCalls == 2 \* calls of a simulator that a second simulator repeats
MaxPairCalls == 3     \* calls made on two simulators used side by side
MaxIterations == 2    \* iterations of a thread that shares a CBSQueue (the test: 100)

(***************************************************************************)
(* Program constants, in model units.                                      *)
(***************************************************************************)
Mega == 1                  \* 1_000_000 bit/s, as bits per tick
MeasurementInterval == 7   \* measurement_interval = 0.1 s, in ticks
DefaultMaxFrameSize == 5   \* max_frame_size of configure_cbs, scaled (bytes)
LinkSpeedMbps == 10        \* link_speed_mbps of add_node, scaled
BurstSize == 2             \* burst_size = 10 frames a burst, scaled
BurstInterval == 7         \* burst_interval = 0.1 s, in ticks
BurstSpacing == 2          \* 0.001 s between the frames of a burst, scaled
MinRandomSize == 5         \* the 64 of random.randint(64, frame_size), scaled
RandomPeriod == 3          \* states of the model of the random module
WorkerThreads == 2         \* the 10 threads of test_concurrent_access, scaled

NONE == 0 - 1

(***************************************************************************)
(* Inputs.                                                                 *)
(***************************************************************************)
NodeIds == {"ECU"}                     \* nodes added with add_node
\* the calls of generate_traffic(source, _, traffic_pattern, duration,
\* rate_mbps, priority, frame_size).  "cbr": frames of 5 bytes (40 bits, 4
\* ticks on the link), one every 8 or 10 ticks (5 or 4 Mbps) or every tick
\* (40 Mbps, four times the link rate).  Priority 3 has no queue and GHOST
\* was never added as a node.  "burst": one burst or two, the last frame of
\* a burst falling after duration.
\* "poisson": frames of 5 to 10 bytes, 8 ticks apart on average.
TrafficRequests ==
  [source : {"ECU"}, traffic_pattern : {"cbr"}, priority : {7}, frame_size : {5},
   shape : {[rate_mbps |-> 5, duration |-> 2], [rate_mbps |-> 5, duration |-> 9],
            [rate_mbps |-> 40, duration |-> 2], [rate_mbps |-> 40, duration |-> 4]}]
  \cup
  [source : {"ECU"}, traffic_pattern : {"cbr"}, priority : {0}, frame_size : {5},
   shape : {[rate_mbps |-> 4, duration |-> 11], [rate_mbps |-> 40, duration |-> 2]}]
  \cup
  [source : {"ECU"}, traffic_pattern : {"cbr"}, priority : {3}, frame_size : {5},
   shape : {[rate_mbps |-> 5, duration |-> 2]}]
  \cup
  [source : {"GHOST"}, traffic_pattern : {"cbr"}, priority : {7}, frame_size : {5},
   shape : {[rate_mbps |-> 5, duration |-> 2]}]
  \cup
  [source : {"ECU"}, traffic_pattern : {"burst"}, priority : {7}, frame_size : {5},
   shape : {[rate_mbps |-> 5, duration |-> 1], [rate_mbps |-> 5, duration |-> 8]}]
  \cup
  [source : {"ECU"}, traffic_pattern : {"poisson"}, priority : {7}, frame_size : {10},
   shape : {[rate_mbps |-> 10, duration |-> 9]}]
\* the states the random module can be seeded with when it is imported
Seeds == 0..(RandomPeriod - 1)
RunDurations == {3, 20}
\* idle_slope_mbps per configured priority; configure_cbs does not validate,
\* so 0, a negative slope and a slope above the link speed are accepted.
Configs ==
  { <<[priority |-> 7, idle_slope_mbps |-> 2], [priority |-> 0, idle_slope_mbps |-> 5]>>,
    <<[priority |-> 7, idle_slope_mbps |-> 10]>>,
    <<[priority |-> 7, idle_slope_mbps |-> 0]>>,
    <<[priority |-> 0, idle_slope_mbps |-> 12], [priority |-> 7, idle_slope_mbps |-> 0 - 5]>> }
\* the configurations of two simulators used side by side
PairConfigs ==
  { <<c1, c2>> \in Configs \X Configs :
      /\ c1 = <<[priority |-> 7, idle_slope_mbps |-> 2], [priority |-> 0, idle_slope_mbps |-> 5]>>
      /\ c2 = <<[priority |-> 7, idle_slope_mbps |-> 10]>> }

(***************************************************************************)
(* Frame (dataclass).  uid is the identity of the Python object; it is not *)
(* a field of the program and no operation of the program reads it.        *)
(***************************************************************************)
NoFrame ==
  [uid |-> 0, id |-> NONE, source |-> "", size |-> 0, priority |-> NONE,
   arrival_time |-> NONE, transmission_time |-> NONE,
   completion_time |-> NONE, dropped |-> FALSE]

NewFrame(uid, id, source, size, priority, arrival_time) ==
  [uid |-> uid, id |-> id, source |-> source, size |-> size,
   priority |-> priority, arrival_time |-> arrival_time,
   transmission_time |-> NONE, completion_time |-> NONE, dropped |-> FALSE]

\* the generated __eq__ of the dataclass: all fields, not the identity
FrameEq(a, b) ==
  /\ a.id = b.id
  /\ a.source = b.source
  /\ a.size = b.size
  /\ a.priority = b.priority
  /\ a.arrival_time = b.arrival_time
  /\ a.transmission_time = b.transmission_time
  /\ a.completion_time = b.completion_time
  /\ a.dropped = b.dropped

\* Frame.__lt__
FrameLt(a, b) == a.priority > b.priority

(***************************************************************************)
(* Events are the tuples (time, event_type, data) pushed on the heap.      *)
(* data is a Frame (arrival), {'node','frame'} (departure) or None.        *)
(***************************************************************************)
ArrivalEvent(t, f) == [time |-> t, type |-> "frame_arrival", node |-> "", frame |-> f]
DepartureEvent(t, n, f) == [time |-> t, type |-> "frame_departure", node |-> n, frame |-> f]
MeasurementEvent(t) == [time |-> t, type |-> "measurement", node |-> "", frame |-> NoFrame]
NoEvent == [time |-> NONE, type |-> "", node |-> "", frame |-> NoFrame]

\* a < b on the tuples, as heapq evaluates it: "T", "F", or "E" when Python
\* raises TypeError (EventType members and dicts have no ordering).
EventLt(a, b) ==
  IF a.time # b.time THEN (IF a.time < b.time THEN "T" ELSE "F")
  ELSE IF a.type # b.type THEN "E"
  ELSE IF a.type = "frame_arrival"
    THEN (IF FrameEq(a.frame, b.frame) THEN "F"
          ELSE IF FrameLt(a.frame, b.frame) THEN "T" ELSE "F")
  ELSE IF a.type = "measurement" THEN "F"
  ELSE (IF a.node = b.node /\ FrameEq(a.frame, b.frame) THEN "F" ELSE "E")

\* the value of v, computed once, handed to F (a local variable of the code)
Let(v, F(_)) == CHOOSE y \in {F(x) : x \in {v}} : TRUE

(***************************************************************************)
(* heapq on a list; position p of the list is element p+1 of the sequence. *)
(* Every operation yields [h |-> list, err |-> a comparison raised].       *)
(***************************************************************************)
Swap(h, i, j) == [h EXCEPT ![i + 1] = h[j + 1], ![j + 1] = h[i + 1]]

RECURSIVE SiftDown(_, _, _)
SiftDown(h, startpos, pos) ==
  IF pos > startpos
    THEN LET parentpos == (pos - 1) \div 2
         IN  Let(EventLt(h[pos + 1], h[parentpos + 1]), LAMBDA cmp :
               IF cmp = "E" THEN [h |-> h, err |-> TRUE]
               ELSE IF cmp = "F" THEN [h |-> h, err |-> FALSE]
               ELSE SiftDown(Swap(h, pos, parentpos), startpos, parentpos))
    ELSE [h |-> h, err |-> FALSE]

RECURSIVE SiftUpFrom(_, _, _)
SiftUpFrom(h, startpos, pos) ==
  LET endpos == Len(h)
      limit == endpos \div 2
  IN  IF pos < limit
        THEN LET left == 2 * pos + 1
             IN  Let(IF left + 1 < endpos
                       THEN EventLt(h[left + 1], h[left + 2])
                       ELSE "T",
                     LAMBDA cmp :
                       LET childpos == IF cmp = "F" THEN left + 1 ELSE left
                       IN  IF cmp = "E" THEN [h |-> h, err |-> TRUE]
                           ELSE SiftUpFrom(Swap(h, childpos, pos), startpos, childpos))
        ELSE SiftDown(h, startpos, pos)

HeapPush(h, e) == SiftDown(Append(h, e), 0, Len(h))

\* heappop of a non-empty heap: the item returned and the heap left
HeapPop(h) ==
  LET lastelt == h[Len(h)]
      rest == SubSeq(h, 1, Len(h) - 1)
  IN  IF rest = <<>>
        THEN [item |-> lastelt, h |-> rest, err |-> FALSE]
        ELSE Let(SiftUpFrom([rest EXCEPT ![1] = lastelt], 0, 0), LAMBDA r :
               [item |-> h[1], h |-> r.h, err |-> r.err])

(***************************************************************************)
(* The module-level generator of random, which generate_traffic draws      *)
(* from: a state that every draw advances.  randint(a, b) yields a or b    *)
(* here, expovariate a half, once or one and a half times the mean.        *)
(***************************************************************************)
RandomNext(s) == (s + 1) % RandomPeriod
randint(s, a, b) == IF (s \div 2) % 2 = 0 THEN a ELSE b
expovariate(s, avg_interval) == (avg_interval * (1 + (s % 3))) \div 2

(***************************************************************************)
(* CBSQueue                                                                *)
(***************************************************************************)
NewCBSQueue(priority, idle_slope, send_slope, hi_credit, lo_credit) ==
  [priority |-> priority, idle_slope |-> idle_slope, send_slope |-> send_slope,
   hi_credit |-> hi_credit, lo_credit |-> lo_credit,
   credit |-> 0, frames |-> <<>>, last_update_time |-> 0]

Min2(a, b) == IF a < b THEN a ELSE b
Max2(a, b) == IF a > b THEN a ELSE b

\* a slip: the reset of an empty queue's credit is forgotten
update_credit_noreset(q, now, is_transmitting) ==
  LET time_delta == now - q.last_update_time
      credit == IF is_transmitting
                  THEN Max2(q.credit + q.send_slope * time_delta, q.lo_credit)
                  ELSE Min2(q.credit + q.idle_slope * time_delta, q.hi_credit)
  IN  [q EXCEPT !.credit = credit, !.last_update_time = now]

update_credit(q, now, is_transmitting) ==
  LET time_delta == now - q.last_update_time
      credit == IF Len(q.frames) = 0 THEN 0
                ELSE IF is_transmitting
                  THEN Max2(q.credit + q.send_slope * time_delta, q.lo_credit)
                  ELSE Min2(q.credit + q.idle_slope * time_delta, q.hi_credit)
  IN  [q EXCEPT !.credit = credit, !.last_update_time = now]

\* a slip: strict comparison of the credit
can_transmit_strict(q) == Len(q.frames) > 0 /\ q.credit > 0

can_transmit(q) == Len(q.frames) > 0 /\ q.credit >= 0

(***************************************************************************)
(* NetworkNode                                                             *)
(***************************************************************************)
EmptyFn == [x \in {} |-> 0]

NewStatistics ==
  [frames_transmitted |-> 0, frames_dropped |-> 0, bytes_transmitted |-> 0,
   total_latency |-> 0, max_latency |-> 0, jitter_samples |-> <<>>]

NewNetworkNode(link_speed_mbps) ==
  [link_speed_bps |-> link_speed_mbps * Mega,
   cbs_queues |-> EmptyFn,
   is_transmitting |-> FALSE,
   current_frame |-> NoFrame,
   transmission_end_time |-> NONE,
   statistics |-> NewStatistics]

\* dict assignment d[k] = v
DictSet(d, k, v) == [x \in DOMAIN d \cup {k} |-> IF x = k THEN v ELSE d[x]]

\* a slip: lo_credit taken as the opposite of hi_credit
configure_cbs_symmetric(node, priority, idle_slope_mbps, max_frame_size) ==
  LET idle_slope == idle_slope_mbps * Mega
      send_slope == idle_slope - node.link_speed_bps
      hi_credit == (max_frame_size * 8 * idle_slope) \div node.link_speed_bps
      lo_credit == 0 - hi_credit
  IN  [node EXCEPT !.cbs_queues =
         DictSet(@, priority,
                 NewCBSQueue(priority, idle_slope, send_slope, hi_credit, lo_credit))]

configure_cbs(node, priority, idle_slope_mbps, max_frame_size) ==
  LET idle_slope == idle_slope_mbps * Mega
      send_slope == idle_slope - node.link_speed_bps
      hi_credit == (max_frame_size * 8 * idle_slope) \div node.link_speed_bps
      lo_credit == (max_frame_size * 8 * send_slope) \div node.link_speed_bps
  IN  [node EXCEPT !.cbs_queues =
         DictSet(@, priority,
                 NewCBSQueue(priority, idle_slope, send_slope, hi_credit, lo_credit))]

\* a slip: the capacity test lets one frame too many in
enqueue_frame_offbyone(node, frame) ==
  IF frame.priority \notin DOMAIN node.cbs_queues
    THEN [node |-> node, frame |-> frame, ok |-> FALSE]
  ELSE IF Len(node.cbs_queues[frame.priority].frames) > MaxQueueSize
    THEN [node |-> [node EXCEPT !.statistics.frames_dropped = @ + 1],
          frame |-> [frame EXCEPT !.dropped = TRUE], ok |-> FALSE]
  ELSE [node |-> [node EXCEPT !.cbs_queues[frame.priority].frames = Append(@, frame)],
        frame |-> frame, ok |-> TRUE]

\* a slip: the dropped frame is queued all the same
enqueue_frame_keepsdropped(node, frame) ==
  IF frame.priority \notin DOMAIN node.cbs_queues
    THEN [node |-> node, frame |-> frame, ok |-> FALSE]
  ELSE IF Len(node.cbs_queues[frame.priority].frames) >= MaxQueueSize
    THEN [node |-> [node EXCEPT !.statistics.frames_dropped = @ + 1,
                                !.cbs_queues[frame.priority].frames =
                                   Append(@, [frame EXCEPT !.dropped = TRUE])],
          frame |-> [frame EXCEPT !.dropped = TRUE], ok |-> FALSE]
  ELSE [node |-> [node EXCEPT !.cbs_queues[frame.priority].frames = Append(@, frame)],
        frame |-> frame, ok |-> TRUE]

\* the node and the frame as the call leaves them, and the value returned
enqueue_frame(node, frame) ==
  IF frame.priority \notin DOMAIN node.cbs_queues
    THEN [node |-> node, frame |-> frame, ok |-> FALSE]
  ELSE IF Len(node.cbs_queues[frame.priority].frames) >= MaxQueueSize
    THEN [node |-> [node EXCEPT !.statistics.frames_dropped = @ + 1],
          frame |-> [frame EXCEPT !.dropped = TRUE], ok |-> FALSE]
  ELSE [node |-> [node EXCEPT !.cbs_queues[frame.priority].frames = Append(@, frame)],
        frame |-> frame, ok |-> TRUE]

\* max(eligible_queues, key=priority): one queue per priority, so no ties
MaxOf(S) == CHOOSE x \in S : \A y \in S : y <= x
MinOf(S) == CHOOSE x \in S : \A y \in S : x <= y

UpdatedQueues(node, now) ==
  [p \in DOMAIN node.cbs_queues |->
     update_credit(node.cbs_queues[p], now, node.is_transmitting)]

\* a slip: the lowest eligible priority is served
select_next_frame_lowest(node, now) ==
  Let(UpdatedQueues(node, now), LAMBDA qs :
    Let({p \in DOMAIN qs : can_transmit(qs[p])}, LAMBDA eligible :
      IF eligible = {}
        THEN [node |-> [node EXCEPT !.cbs_queues = qs],
              found |-> FALSE, frame |-> NoFrame]
        ELSE Let(MinOf(eligible), LAMBDA sel :
               [node |-> [node EXCEPT !.cbs_queues =
                                         [qs EXCEPT ![sel].frames = Tail(@)]],
                found |-> TRUE, frame |-> Head(qs[sel].frames)])))

\* a slip: pop() for popleft(), the newest frame of the queue is served
select_next_frame_newest(node, now) ==
  Let(UpdatedQueues(node, now), LAMBDA qs :
    Let({p \in DOMAIN qs : can_transmit(qs[p])}, LAMBDA eligible :
      IF eligible = {}
        THEN [node |-> [node EXCEPT !.cbs_queues = qs],
              found |-> FALSE, frame |-> NoFrame]
        ELSE Let(MaxOf(eligible), LAMBDA sel :
               [node |-> [node EXCEPT !.cbs_queues =
                            [qs EXCEPT ![sel].frames = SubSeq(@, 1, Len(@) - 1)]],
                found |-> TRUE, frame |-> qs[sel].frames[Len(qs[sel].frames)]])))

\* found = FALSE is the None of the program
select_next_frame(node, now) ==
  Let(UpdatedQueues(node, now), LAMBDA qs :
    Let({p \in DOMAIN qs : can_transmit(qs[p])}, LAMBDA eligible :
      IF eligible = {}
        THEN [node |-> [node EXCEPT !.cbs_queues = qs],
              found |-> FALSE, frame |-> NoFrame]
        ELSE Let(MaxOf(eligible), LAMBDA sel :
               [node |-> [node EXCEPT !.cbs_queues =
                                         [qs EXCEPT ![sel].frames = Tail(@)]],
                found |-> TRUE, frame |-> Head(qs[sel].frames)])))

\* a slip: the frame is stamped with the end of its transmission
start_transmission_endstamp(node, frame, now) ==
  LET transmission_time == (frame.size * 8) \div node.link_speed_bps
      f1 == [frame EXCEPT !.transmission_time = now + transmission_time + 1]
  IN  [node |-> [node EXCEPT !.is_transmitting = TRUE,
                             !.current_frame = f1,
                             !.transmission_end_time = now + transmission_time],
       frame |-> f1,
       end_time |-> now + transmission_time]

\* a slip: the size is taken in bytes, the factor 8 is forgotten
start_transmission_bytes(node, frame, now) ==
  LET transmission_time == frame.size \div node.link_speed_bps
      f1 == [frame EXCEPT !.transmission_time = now]
  IN  [node |-> [node EXCEPT !.is_transmitting = TRUE,
                             !.current_frame = f1,
                             !.transmission_end_time = now + transmission_time],
       frame |-> f1,
       end_time |-> now + transmission_time]

start_transmission(node, frame, now) ==
  LET transmission_time == (frame.size * 8) \div node.link_speed_bps
      f1 == [frame EXCEPT !.transmission_time = now]
  IN  [node |-> [node EXCEPT !.is_transmitting = TRUE,
                             !.current_frame = f1,
                             !.transmission_end_time = now + transmission_time],
       frame |-> f1,
       end_time |-> now + transmission_time]

\* jitter_samples: only latencies are ever appended (the jitter computed at
\* line 186 is dropped)
complete_transmission(node, now) ==
  LET frame == [node.current_frame EXCEPT !.completion_time = now]
      latency == frame.completion_time - frame.arrival_time
      st == node.statistics
  IN  [node |-> [node EXCEPT
                   !.statistics =
                      [frames_transmitted |-> st.frames_transmitted + 1,
                       frames_dropped |-> st.frames_dropped,
                       bytes_transmitted |-> st.bytes_transmitted + frame.size,
                       total_latency |-> st.total_latency + latency,
                       max_latency |-> Max2(st.max_latency, latency),
                       jitter_samples |-> Append(st.jitter_samples, latency)],
                   !.is_transmitting = FALSE,
                   !.current_frame = NoFrame,
                   !.transmission_end_time = NONE],
       frame |-> frame]

(***************************************************************************)
(* NetworkSimulator                                                        *)
(*                                                                         *)
(* pc tells where the caller of the simulator stands: "idle" between the   *)
(* calls, "running" between two iterations of the loop of run, "crashed"   *)
(* after an exception left a call.  duration is the argument of the run in *)
(* progress.  random_state is the state of the generator of the random     *)
(* module, which belongs to the process and not to the simulator; it is    *)
(* NONE until the first draw, where the seed the import gave it is chosen. *)
(* hist is history only: the calls made so far, the frames dropped so far, *)
(* the frames whose Arrival was processed, the frames in the order their   *)
(* queues accepted them and in the order they went on the link, what the   *)
(* last step did, the configuration, and                                   *)
(* the calls and results of the simulator that was used before this one    *)
(* (first) when this is the second simulator of the process (life = 2);    *)
(* the program never reads it.                                             *)
(*                                                                         *)
(* other is the second NetworkSimulator of the process when two are used   *)
(* side by side: the variables above are the simulator whose method is     *)
(* being called, other holds the one that is not (sim = 0: there is none). *)
(* workers is the CBSQueue that threads share and the position and locals  *)
(* of each thread, when a queue is used that way.                          *)
(***************************************************************************)
VARIABLES nodes, current_time, event_queue, results, pc, duration,
          random_state, hist, other, workers

vars == <<nodes, current_time, event_queue, results, pc, duration,
          random_state, hist, other, workers>>

NoStatistics ==
  [present |-> FALSE, total_frames |-> 0, dropped_frames |-> 0,
   drop_rate_num |-> 0, drop_rate_den |-> 1,
   n_latencies |-> 0, sum_latency |-> 0, max_latency |-> 0, min_latency |-> 0]

NoRequest ==
  [source |-> "", traffic_pattern |-> "", priority |-> NONE, frame_size |-> 0,
   shape |-> [rate_mbps |-> 0, duration |-> 0]]

\* what a step did: the handler, its node and the node as the handler found
\* it (pre), the frame of the event as the handler left it, whether it was
\* queued, whether select_next_frame was called, the frame that started,
\* the frame that completed, the event heappop handed out and the request
\* of generate_traffic
NoStep ==
  [op |-> "init", node |-> "", pre |-> NewNetworkNode(LinkSpeedMbps),
   frame |-> NoFrame, enqueued |-> FALSE,
   selected |-> FALSE, started |-> NoFrame, completed |-> NoFrame,
   popped |-> NoEvent, req |-> NoRequest]

RECURSIVE ConfigureAll(_, _)
ConfigureAll(node, cfg) ==
  IF cfg = <<>> THEN node
  ELSE ConfigureAll(configure_cbs(node, Head(cfg).priority,
                                  Head(cfg).idle_slope_mbps, DefaultMaxFrameSize),
                    Tail(cfg))

NewResults == [frames |-> <<>>, statistics |-> NoStatistics, events |-> <<>>]

\* a call of the simulator, as the history keeps it; the history keeps the
\* first MaxReplayedCalls calls of a simulator
Call(op, req, dur) == [op |-> op, req |-> req, duration |-> dur]
Logged(calls, call) ==
  IF Len(calls) < MaxReplayedCalls THEN Append(calls, call) ELSE calls

NewHist(cfg) ==
  [next_uid |-> 1, gen_calls |-> 0, runs |-> 0, dropped |-> {}, last |-> NoStep,
   arrived |-> {}, accepted |-> <<>>, started |-> <<>>, calls |-> <<>>,
   cfg |-> cfg, life |-> 1,
   first |-> [calls |-> <<>>, results |-> NewResults]]

\* NetworkSimulator(), then add_node and configure_cbs for every node: the
\* fields of the new object
NewNetworkSimulator(cfg) ==
  [nodes |-> [n \in NodeIds |-> ConfigureAll(NewNetworkNode(LinkSpeedMbps), cfg)],
   current_time |-> 0,
   event_queue |-> <<>>,
   results |-> NewResults,
   pc |-> "idle",
   duration |-> NONE,
   hist |-> NewHist(cfg)]

\* no second simulator
NoOther == [sim |-> 0, state |-> NewNetworkSimulator(<<>>)]

\* no threads
NoWorkers ==
  [queue |-> NewCBSQueue(NONE, 0, 0, 0, 0), thread |-> <<>>]

\* the simulator is the object s
IsSimulator(s) ==
  /\ nodes = s.nodes
  /\ current_time = s.current_time
  /\ event_queue = s.event_queue
  /\ results = s.results
  /\ pc = s.pc
  /\ duration = s.duration
  /\ hist = s.hist

Init ==
  /\ \E cfg \in Configs : IsSimulator(NewNetworkSimulator(cfg))
  /\ random_state = NONE
  /\ other = NoOther
  /\ workers = NoWorkers

\* the calls made on a simulator so far
CallsOf(h) == h.gen_calls + h.runs

\* a second simulator repeats the calls of the first, one by one; two
\* simulators side by side are given MaxPairCalls calls
MayCall(op, req, dur) ==
  /\ other.sim # 0 => CallsOf(hist) + CallsOf(other.state.hist) < MaxPairCalls
  /\ \/ hist.life = 1
     \/ /\ Len(hist.calls) < Len(hist.first.calls)
        /\ hist.first.calls[Len(hist.calls) + 1] = Call(op, req, dur)

(***************************************************************************)
(* The mutable containers of the objects: the list event_queue and the     *)
(* dicts results and nodes that __init__ makes, the deque frames that the  *)
(* default_factory of CBSQueue makes.  Container is the identity of the    *)
(* container of simulator sim.  What a handler writes into a container of  *)
(* its simulator is seen by whoever holds the same container: Aliased is   *)
(* the other simulator after a step that left the containers ns, eq and    *)
(* res in the simulator being called.                                      *)
(***************************************************************************)
\* a slip: the containers are made once, in the body of the class
Container_OfClass(sim, field) == <<0, field>>

Container(sim, field) == <<sim, field>>

Self == IF other.sim = 1 THEN 2 ELSE 1

SameContainer(field) == Container(other.sim, field) = Container(Self, field)

AliasedFrames(ons, ns) ==
  [n \in DOMAIN ons |->
     [ons[n] EXCEPT !.cbs_queues =
        [p \in DOMAIN ons[n].cbs_queues |->
           IF n \in DOMAIN ns /\ p \in DOMAIN ns[n].cbs_queues
             THEN [ons[n].cbs_queues[p] EXCEPT !.frames = ns[n].cbs_queues[p].frames]
             ELSE ons[n].cbs_queues[p]]]]

Aliased(o, ns, eq, res) ==
  IF o.sim = 0 THEN o
  ELSE [o EXCEPT
          !.state.event_queue = IF SameContainer("event_queue") THEN eq ELSE @,
          !.state.results = IF SameContainer("results") THEN res ELSE @,
          !.state.nodes = IF SameContainer("nodes") THEN ns
                          ELSE IF SameContainer("frames") THEN AliasedFrames(@, ns)
                          ELSE @]

\* what a step of a simulator does to the rest of the process
Elsewhere ==
  /\ other' = Aliased(other, nodes', event_queue', results')
  /\ UNCHANGED workers

\* schedule_event
schedule_event(eq, time, type, node, frame) ==
  HeapPush(eq, [time |-> time, type |-> type, node |-> node, frame |-> frame])

RECURSIVE SumSeq(_, _)
SumSeq(s, i) == IF i > Len(s) THEN 0 ELSE s[i] + SumSeq(s, i + 1)

(***************************************************************************)
(* compile_results: the statistics are replaced only when some frame of    *)
(* the results is not dropped; mean, percentiles and deviation are kept as *)
(* the count and the sum of the latencies.                                 *)
(***************************************************************************)
compile_results(res) ==
  LET total_frames == Len(res.frames)
      dropped_frames == Cardinality({i \in 1..Len(res.frames) : res.frames[i].dropped})
      idx == {i \in 1..Len(res.frames) : ~res.frames[i].dropped}
      lat(i) == res.frames[i].latency
  IN  IF idx # {}
        THEN [res EXCEPT !.statistics =
               [present |-> TRUE,
                total_frames |-> total_frames,
                dropped_frames |-> dropped_frames,
                drop_rate_num |-> IF total_frames > 0 THEN dropped_frames ELSE 0,
                drop_rate_den |-> IF total_frames > 0 THEN total_frames ELSE 1,
                n_latencies |-> Cardinality(idx),
                sum_latency |-> SumSeq([i \in 1..Len(res.frames) |->
                                          IF i \in idx THEN lat(i) ELSE 0], 1),
                max_latency |-> MaxOf({lat(i) : i \in idx}),
                min_latency |-> MinOf({lat(i) : i \in idx})]]
        ELSE res

\* collect_statistics: utilization is the fraction util_num / util_den
collect_statistics(res, ns, now) ==
  LET snapshot ==
        [time |-> now,
         nodes |-> [n \in DOMAIN ns |->
            [frames_transmitted |-> ns[n].statistics.frames_transmitted,
             frames_dropped |-> ns[n].statistics.frames_dropped,
             util_num |-> IF now > 0 THEN ns[n].statistics.bytes_transmitted * 8 ELSE 0,
             util_den |-> IF now > 0 THEN ns[n].link_speed_bps * now ELSE 1]]]
  IN  [res EXCEPT !.events = Append(@, snapshot)]

\* select_next_frame, start_transmission and schedule_event(FRAME_DEPARTURE),
\* the tail shared by the two handlers (lines 293-298 and 317-322)
TryStart(ns, eq, n, now) ==
  Let(select_next_frame(ns[n], now), LAMBDA sel :
    IF sel.found
      THEN Let(start_transmission(sel.node, sel.frame, now), LAMBDA st :
             Let(schedule_event(eq, st.end_time, "frame_departure", n, st.frame),
                 LAMBDA push :
                   [nodes |-> [ns EXCEPT ![n] = st.node], eq |-> push.h,
                    err |-> push.err, started |-> st.frame]))
      ELSE [nodes |-> [ns EXCEPT ![n] = sel.node], eq |-> eq,
            err |-> FALSE, started |-> NoFrame])

\* a slip: the test of is_transmitting is forgotten, every accepted Arrival
\* selects
process_frame_arrival_untested(ns, eq, now, frame) ==
  IF frame.source \in DOMAIN ns
    THEN LET n == frame.source
         IN  Let(enqueue_frame(ns[n], frame), LAMBDA enq :
               IF enq.ok
                 THEN Let(TryStart([ns EXCEPT ![n] = enq.node], eq, n, now), LAMBDA t :
                        [nodes |-> t.nodes, eq |-> t.eq, err |-> t.err,
                         step |-> [op |-> "arrival", node |-> n, pre |-> ns[n],
                                   frame |-> enq.frame,
                                   enqueued |-> TRUE, selected |-> TRUE,
                                   started |-> t.started, completed |-> NoFrame,
                                   popped |-> NoEvent, req |-> NoRequest]])
                 ELSE [nodes |-> [ns EXCEPT ![n] = enq.node], eq |-> eq, err |-> FALSE,
                       step |-> [op |-> "arrival", node |-> n, pre |-> ns[n],
                                 frame |-> enq.frame,
                                 enqueued |-> enq.ok, selected |-> FALSE,
                                 started |-> NoFrame, completed |-> NoFrame,
                                 popped |-> NoEvent, req |-> NoRequest]])
    ELSE [nodes |-> ns, eq |-> eq, err |-> FALSE,
          step |-> [op |-> "arrival", node |-> "", pre |-> NoStep.pre,
                    frame |-> frame,
                    enqueued |-> FALSE, selected |-> FALSE,
                    started |-> NoFrame, completed |-> NoFrame,
                    popped |-> NoEvent, req |-> NoRequest]]

\* a slip: the test of is_transmitting lost its not
process_frame_arrival_negated(ns, eq, now, frame) ==
  IF frame.source \in DOMAIN ns
    THEN LET n == frame.source
         IN  Let(enqueue_frame(ns[n], frame), LAMBDA enq :
               IF enq.ok /\ ns[n].is_transmitting
                 THEN Let(TryStart([ns EXCEPT ![n] = enq.node], eq, n, now), LAMBDA t :
                        [nodes |-> t.nodes, eq |-> t.eq, err |-> t.err,
                         step |-> [op |-> "arrival", node |-> n, pre |-> ns[n],
                                   frame |-> enq.frame,
                                   enqueued |-> TRUE, selected |-> TRUE,
                                   started |-> t.started, completed |-> NoFrame,
                                   popped |-> NoEvent, req |-> NoRequest]])
                 ELSE [nodes |-> [ns EXCEPT ![n] = enq.node], eq |-> eq, err |-> FALSE,
                       step |-> [op |-> "arrival", node |-> n, pre |-> ns[n],
                                 frame |-> enq.frame,
                                 enqueued |-> enq.ok, selected |-> FALSE,
                                 started |-> NoFrame, completed |-> NoFrame,
                                 popped |-> NoEvent, req |-> NoRequest]])
    ELSE [nodes |-> ns, eq |-> eq, err |-> FALSE,
          step |-> [op |-> "arrival", node |-> "", pre |-> NoStep.pre,
                    frame |-> frame,
                    enqueued |-> FALSE, selected |-> FALSE,
                    started |-> NoFrame, completed |-> NoFrame,
                    popped |-> NoEvent, req |-> NoRequest]]

\* process_frame_arrival
process_frame_arrival(ns, eq, now, frame) ==
  IF frame.source \in DOMAIN ns
    THEN LET n == frame.source
         IN  Let(enqueue_frame(ns[n], frame), LAMBDA enq :
               IF enq.ok /\ ~ns[n].is_transmitting
                 THEN Let(TryStart([ns EXCEPT ![n] = enq.node], eq, n, now), LAMBDA t :
                        [nodes |-> t.nodes, eq |-> t.eq, err |-> t.err,
                         step |-> [op |-> "arrival", node |-> n, pre |-> ns[n],
                                   frame |-> enq.frame,
                                   enqueued |-> TRUE, selected |-> TRUE,
                                   started |-> t.started, completed |-> NoFrame,
                                   popped |-> NoEvent, req |-> NoRequest]])
                 ELSE [nodes |-> [ns EXCEPT ![n] = enq.node], eq |-> eq, err |-> FALSE,
                       step |-> [op |-> "arrival", node |-> n, pre |-> ns[n],
                                 frame |-> enq.frame,
                                 enqueued |-> enq.ok, selected |-> FALSE,
                                 started |-> NoFrame, completed |-> NoFrame,
                                 popped |-> NoEvent, req |-> NoRequest]])
    ELSE [nodes |-> ns, eq |-> eq, err |-> FALSE,
          step |-> [op |-> "arrival", node |-> "", pre |-> NoStep.pre,
                    frame |-> frame,
                    enqueued |-> FALSE, selected |-> FALSE,
                    started |-> NoFrame, completed |-> NoFrame,
                    popped |-> NoEvent, req |-> NoRequest]]

\* the dict appended to results['frames']; uid is the identity of the frame
FrameRecord(frame) ==
  [uid |-> frame.uid,
   frame_id |-> frame.id, priority |-> frame.priority, size |-> frame.size,
   arrival_time |-> frame.arrival_time,
   transmission_time |-> frame.transmission_time,
   completion_time |-> frame.completion_time,
   latency |-> frame.completion_time - frame.arrival_time,
   dropped |-> frame.dropped]

\* process_frame_departure
process_frame_departure(ns, eq, res, now, n) ==
  Let(complete_transmission(ns[n], now), LAMBDA done :
    Let(TryStart([ns EXCEPT ![n] = done.node], eq, n, now), LAMBDA t :
      [nodes |-> t.nodes, eq |-> t.eq, err |-> t.err,
       results |-> [res EXCEPT !.frames = Append(@, FrameRecord(done.frame))],
       step |-> [op |-> "departure", node |-> n, pre |-> ns[n],
                 frame |-> NoFrame,
                 enqueued |-> FALSE, selected |-> TRUE,
                 started |-> t.started, completed |-> done.frame,
                 popped |-> NoEvent, req |-> NoRequest]]))

(***************************************************************************)
(* generate_traffic, pattern "cbr": frames at 0, interval, 2*interval, ... *)
(* while next_time < duration, each pushed on the heap as it is created; a *)
(* comparison that raises leaves the call at once.                         *)
(***************************************************************************)
RECURSIVE GenerateCbr(_, _, _, _, _, _, _, _, _)
GenerateCbr(eq, next_time, frame_id, uid, source, size, priority, interval, dur) ==
  IF next_time < dur
    THEN Let(schedule_event(eq, next_time, "frame_arrival", "",
                            NewFrame(uid, frame_id, source, size, priority, next_time)),
             LAMBDA push :
               IF push.err
                 THEN [h |-> push.h, err |-> TRUE, uid |-> uid + 1]
                 ELSE GenerateCbr(push.h, next_time + interval, frame_id + 1, uid + 1,
                                  source, size, priority, interval, dur))
    ELSE [h |-> eq, err |-> FALSE, uid |-> uid]

(***************************************************************************)
(* pattern "poisson": the size of each frame and the gap to the next are   *)
(* drawn from the random module, the size before the frame is scheduled    *)
(* and the gap after; randint raises ValueError on an empty range.         *)
(***************************************************************************)
RECURSIVE GeneratePoisson(_, _, _, _, _, _, _, _, _, _)
GeneratePoisson(eq, next_time, frame_id, uid, rs, source, frame_size, priority, avg_interval, dur) ==
  IF next_time < dur
    THEN IF frame_size < MinRandomSize
           THEN [h |-> eq, err |-> TRUE, uid |-> uid, rs |-> rs]
           ELSE Let(schedule_event(eq, next_time, "frame_arrival", "",
                                   NewFrame(uid, frame_id, source,
                                            randint(rs, MinRandomSize, frame_size),
                                            priority, next_time)),
                    LAMBDA push :
                      IF push.err
                        THEN [h |-> push.h, err |-> TRUE, uid |-> uid + 1,
                              rs |-> RandomNext(rs)]
                        ELSE GeneratePoisson(push.h,
                               next_time + expovariate(RandomNext(rs), avg_interval),
                               frame_id + 1, uid + 1, RandomNext(RandomNext(rs)),
                               source, frame_size, priority, avg_interval, dur))
    ELSE [h |-> eq, err |-> FALSE, uid |-> uid, rs |-> rs]

(***************************************************************************)
(* pattern "burst": BurstSize frames, BurstSpacing apart, every            *)
(* BurstInterval while the start of the burst is before duration; i is the *)
(* position in the burst.  rate_mbps is not read.                          *)
(***************************************************************************)
RECURSIVE GenerateBurst(_, _, _, _, _, _, _, _, _)
GenerateBurst(eq, next_burst_time, i, frame_id, uid, source, size, priority, dur) ==
  IF next_burst_time < dur
    THEN IF i < BurstSize
           THEN Let(schedule_event(eq, next_burst_time + i * BurstSpacing,
                                   "frame_arrival", "",
                                   NewFrame(uid, frame_id, source, size, priority,
                                            next_burst_time + i * BurstSpacing)),
                    LAMBDA push :
                      IF push.err
                        THEN [h |-> push.h, err |-> TRUE, uid |-> uid + 1]
                        ELSE GenerateBurst(push.h, next_burst_time, i + 1,
                                           frame_id + 1, uid + 1,
                                           source, size, priority, dur))
           ELSE GenerateBurst(eq, next_burst_time + BurstInterval, 0, frame_id, uid,
                              source, size, priority, dur)
    ELSE [h |-> eq, err |-> FALSE, uid |-> uid]

\* interval and avg_interval of generate_traffic
Interval(req) == (req.frame_size * 8) \div (req.shape.rate_mbps * Mega)

\* generate_traffic: the heap, whether it raised, the next frame identity
\* and the state of the random module it leaves
generate_traffic(eq, uid, rs, req) ==
  IF req.traffic_pattern = "cbr"
    THEN Let(GenerateCbr(eq, 0, 0, uid, req.source, req.frame_size, req.priority,
                         Interval(req), req.shape.duration),
             LAMBDA g : [h |-> g.h, err |-> g.err, uid |-> g.uid, rs |-> rs])
  ELSE IF req.traffic_pattern = "poisson"
    THEN GeneratePoisson(eq, 0, 0, uid, rs, req.source, req.frame_size, req.priority,
                         Interval(req), req.shape.duration)
  ELSE IF req.traffic_pattern = "burst"
    THEN Let(GenerateBurst(eq, 0, 0, 0, uid, req.source, req.frame_size, req.priority,
                           req.shape.duration),
             LAMBDA g : [h |-> g.h, err |-> g.err, uid |-> g.uid, rs |-> rs])
  ELSE [h |-> eq, err |-> FALSE, uid |-> uid, rs |-> rs]

\* the most frames a request can create
MaxCount(req) ==
  LET dur == req.shape.duration
      step == IF req.traffic_pattern = "poisson"
                THEN expovariate(0, Interval(req)) ELSE Interval(req)
  IN  IF req.traffic_pattern = "burst"
        THEN ((dur + BurstInterval - 1) \div BurstInterval) * BurstSize
        ELSE (dur + step - 1) \div step

GenerateTraffic ==
  /\ pc = "idle"
  /\ hist.gen_calls < MaxGenCalls
  /\ \E req \in TrafficRequests :
       /\ MayCall("generate_traffic", req, NONE)
       /\ (hist.next_uid - 1) + MaxCount(req) <= MaxFrames
       /\ \E rs \in (IF req.traffic_pattern = "poisson" /\ random_state = NONE
                       THEN Seeds ELSE {random_state}) :
            \E gen \in {generate_traffic(event_queue, hist.next_uid, rs, req)} :
                /\ event_queue' = gen.h
                /\ random_state' = gen.rs
                /\ pc' = IF gen.err THEN "crashed" ELSE "idle"
                /\ hist' = [hist EXCEPT !.gen_calls = @ + 1, !.next_uid = gen.uid,
                                        !.calls = Logged(@, Call("generate_traffic", req, NONE)),
                                        !.last = [NoStep EXCEPT !.op = "generate_traffic",
                                                                !.req = req]]
  /\ UNCHANGED <<nodes, current_time, results, duration>>
  /\ Elsewhere

(***************************************************************************)
(* run(duration), cut at the iterations of its loop.  RunStart is the call *)
(* up to the first test of the loop, RunStep one iteration; the step that  *)
(* finds the heap empty or pops an event later than duration goes on       *)
(* through compile_results and returns.                                    *)
(***************************************************************************)
RECURSIVE ScheduleMeasurements(_, _, _)
ScheduleMeasurements(eq, next_measurement, dur) ==
  IF next_measurement <= dur
    THEN Let(schedule_event(eq, next_measurement, "measurement", "", NoFrame),
             LAMBDA push :
               IF push.err THEN push
               ELSE ScheduleMeasurements(push.h, next_measurement + MeasurementInterval,
                                         dur))
    ELSE [h |-> eq, err |-> FALSE]

RunStart ==
  /\ pc = "idle"
  /\ hist.runs < MaxRuns
  /\ \E dur \in RunDurations :
       /\ MayCall("run", NoRequest, dur)
       /\ \E sch \in {ScheduleMeasurements(event_queue, MeasurementInterval, dur)} :
           /\ event_queue' = sch.h
           /\ duration' = dur
           /\ pc' = IF sch.err THEN "crashed"
                    ELSE IF sch.h = <<>> THEN "idle" ELSE "running"
           /\ results' = IF ~sch.err /\ sch.h = <<>>
                           THEN compile_results(results) ELSE results
       /\ hist' = [hist EXCEPT !.runs = @ + 1,
                               !.calls = Logged(@, Call("run", NoRequest, dur)),
                               !.last = [NoStep EXCEPT !.op = "run"]]
  /\ UNCHANGED <<nodes, current_time, random_state>>
  /\ Elsewhere

\* the frames that queues accepted and the frames that went on the link, in
\* order, with the step of a handler added
Tag(n, frame) == [node |-> n, priority |-> frame.priority, uid |-> frame.uid]
\* the frames whose Arrival was processed, with the step of a handler added
Arrived(h, step) ==
  IF step.op = "arrival" THEN h.arrived \cup {step.frame.uid} ELSE h.arrived
Accepted(h, step) ==
  IF step.op = "arrival" /\ step.enqueued
    THEN Append(h.accepted, Tag(step.node, step.frame)) ELSE h.accepted
Started(h, step) ==
  IF step.started # NoFrame
    THEN Append(h.started, Tag(step.node, step.started)) ELSE h.started

\* the end of an iteration that did not raise: back to the test of the loop
EndOfIteration(ns, eq, res, step, droppedNow) ==
  /\ nodes' = ns
  /\ event_queue' = eq
  /\ pc' = IF eq = <<>> THEN "idle" ELSE "running"
  /\ results' = IF eq = <<>> THEN compile_results(res) ELSE res
  /\ hist' = [hist EXCEPT !.last = step, !.dropped = @ \cup droppedNow,
                          !.arrived = Arrived(hist, step),
                          !.accepted = Accepted(hist, step),
                          !.started = Started(hist, step)]

Raised(ns, eq, res, step, droppedNow) ==
  /\ nodes' = ns
  /\ event_queue' = eq
  /\ pc' = "crashed"
  /\ results' = res
  /\ hist' = [hist EXCEPT !.last = step, !.dropped = @ \cup droppedNow,
                          !.arrived = Arrived(hist, step),
                          !.accepted = Accepted(hist, step),
                          !.started = Started(hist, step)]

\* heappop raised TypeError
PopRaises ==
  /\ pc = "running"
  /\ \E pop \in {HeapPop(event_queue)} :
         /\ pop.err
         /\ Raised(nodes, pop.h, results, [NoStep EXCEPT !.op = "pop"], {})
  /\ UNCHANGED <<current_time, duration, random_state>>
  /\ Elsewhere

\* if event_time > duration: break
RunBreak ==
  /\ pc = "running"
  /\ \E pop \in {HeapPop(event_queue)} :
         /\ ~pop.err
         /\ pop.item.time > duration
         /\ event_queue' = pop.h
         /\ results' = compile_results(results)
         /\ hist' = [hist EXCEPT !.last = [NoStep EXCEPT !.op = "break",
                                                         !.popped = pop.item]]
  /\ pc' = "idle"
  /\ UNCHANGED <<nodes, current_time, duration, random_state>>
  /\ Elsewhere

ProcessArrival ==
  /\ pc = "running"
  /\ \E pop \in {HeapPop(event_queue)} :
         /\ ~pop.err
         /\ pop.item.time <= duration
         /\ pop.item.type = "frame_arrival"
         /\ current_time' = pop.item.time
         /\ \E r \in {process_frame_arrival(nodes, pop.h, pop.item.time,
                                              pop.item.frame)} :
              LET d == IF r.step.frame.dropped THEN {r.step.frame.uid} ELSE {}
                  step == [r.step EXCEPT !.popped = pop.item]
              IN  IF r.err THEN Raised(r.nodes, r.eq, results, step, d)
                  ELSE EndOfIteration(r.nodes, r.eq, results, step, d)
  /\ UNCHANGED <<duration, random_state>>
  /\ Elsewhere

ProcessDeparture ==
  /\ pc = "running"
  /\ \E pop \in {HeapPop(event_queue)} :
         /\ ~pop.err
         /\ pop.item.time <= duration
         /\ pop.item.type = "frame_departure"
         /\ current_time' = pop.item.time
         /\ \E r \in {process_frame_departure(nodes, pop.h, results, pop.item.time,
                                                pop.item.node)} :
              LET step == [r.step EXCEPT !.popped = pop.item]
              IN  IF r.err THEN Raised(r.nodes, r.eq, r.results, step, {})
                  ELSE EndOfIteration(r.nodes, r.eq, r.results, step, {})
  /\ UNCHANGED <<duration, random_state>>
  /\ Elsewhere

ProcessMeasurement ==
  /\ pc = "running"
  /\ \E pop \in {HeapPop(event_queue)} :
         /\ ~pop.err
         /\ pop.item.time <= duration
         /\ pop.item.type = "measurement"
         /\ current_time' = pop.item.time
         /\ EndOfIteration(nodes, pop.h,
                           collect_statistics(results, nodes, pop.item.time),
                           [NoStep EXCEPT !.op = "measurement", !.popped = pop.item], {})
  /\ UNCHANGED <<duration, random_state>>
  /\ Elsewhere

Next ==
  \/ GenerateTraffic
  \/ RunStart
  \/ PopRaises
  \/ RunBreak
  \/ ProcessArrival
  \/ ProcessDeparture
  \/ ProcessMeasurement

Spec == Init /\ [][Next]_vars

(***************************************************************************)
(* The loop of run goes on by itself: once run is called, the next         *)
(* iteration is taken as long as there is one to take.  The calls of       *)
(* generate_traffic and of run are the caller's, who may stop calling.     *)
(***************************************************************************)
RunIteration ==
  \/ PopRaises
  \/ RunBreak
  \/ ProcessArrival
  \/ ProcessDeparture
  \/ ProcessMeasurement

SpecFair == Spec /\ WF_vars(RunIteration)

(***************************************************************************)
(* A second simulator in the same process: NetworkSimulator(), add_node    *)
(* and configure_cbs as for the first, which is used no more.  The random  *)
(* module keeps its state.  The second simulator is given the calls of the *)
(* first (MayCall).                                                        *)
(***************************************************************************)
NewSimulator ==
  /\ pc = "idle"
  /\ hist.life = 1
  /\ hist.runs >= 1
  /\ hist.gen_calls + hist.runs <= MaxReplayedCalls
  /\ nodes' = [n \in NodeIds |->
                 ConfigureAll(NewNetworkNode(LinkSpeedMbps), hist.cfg)]
  /\ current_time' = 0
  /\ event_queue' = <<>>
  /\ results' = NewResults
  /\ duration' = NONE
  /\ hist' = [NewHist(hist.cfg) EXCEPT
                !.life = 2,
                !.first = [calls |-> hist.calls, results |-> results]]
  /\ UNCHANGED <<pc, random_state, other, workers>>

NextTwice ==
  \/ Next
  \/ NewSimulator

SpecTwice == Init /\ [][NextTwice]_vars

(***************************************************************************)
(* Two simulators side by side in one thread, each made by                 *)
(* NetworkSimulator(), add_node and configure_cbs: the caller makes its    *)
(* next call on either.  The calls are those of Next, made on the          *)
(* simulator the variables hold; SwitchSimulator turns to the other one,   *)
(* between two calls.  The random module is the one thing they share.      *)
(***************************************************************************)
ThisSimulator ==
  [nodes |-> nodes, current_time |-> current_time, event_queue |-> event_queue,
   results |-> results, pc |-> pc, duration |-> duration, hist |-> hist]

InitPair ==
  /\ \E cfgs \in PairConfigs :
       /\ IsSimulator(NewNetworkSimulator(cfgs[1]))
       /\ other = [sim |-> 2, state |-> NewNetworkSimulator(cfgs[2])]
  /\ random_state = NONE
  /\ workers = NoWorkers

SwitchSimulator ==
  /\ other.sim # 0
  /\ pc # "running"
  /\ nodes' = other.state.nodes
  /\ current_time' = other.state.current_time
  /\ event_queue' = other.state.event_queue
  /\ results' = other.state.results
  /\ pc' = other.state.pc
  /\ duration' = other.state.duration
  /\ hist' = other.state.hist
  /\ other' = [sim |-> Self, state |-> ThisSimulator]
  /\ UNCHANGED <<random_state, workers>>

NextPair ==
  \/ Next
  \/ SwitchSimulator

SpecPair == InitPair /\ [][NextPair]_vars

(***************************************************************************)
(* One CBSQueue shared by threads (TestEdgeCases.test_concurrent_access):  *)
(* each thread, MaxIterations times, adds a frame to the queue, removes    *)
(* the head if the queue is not empty and calls update_credit with a time  *)
(* and a flag it draws.  CBSQueue defines no add_frame and no remove_frame *)
(* of its own: the two steps are the append and the popleft that the       *)
(* program performs on queue.frames (enqueue_frame, select_next_frame).    *)
(* The interpreter may switch threads between                              *)
(* any two steps below: the test of the queue and the removal are two      *)
(* steps, and update_credit reads last_update_time, reads the frames and   *)
(* the credit, writes the credit and writes last_update_time in four.  An  *)
(* exception (popleft of an empty deque raises IndexError) ends the        *)
(* thread: pc = "failed".                                                  *)
(***************************************************************************)
Threads == 1..WorkerThreads
WorkerSizes == {MinRandomSize, 2 * MinRandomSize}   \* random.randint(64, 1500)
WorkerTimes == {0, 1}                               \* random.random()

\* CBSQueue(0, 750, -250, 2000, -1000), scaled
WorkerQueue == NewCBSQueue(0, 3, 0 - 1, 8, 0 - 4)

NewWorker ==
  [pc |-> "append", iter |-> 0, now |-> 0, flag |-> FALSE, time_delta |-> 0,
   acc |-> 0]

\* a slip: the deque is made with maxlen=1, an append to a full deque
\* discards its head
add_frame_maxlen(frames, frame) ==
  IF Len(frames) >= 1 THEN Append(Tail(frames), frame) ELSE Append(frames, frame)

\* what the test calls on the queue, as deque.append and as deque.popleft
\* (of a deque that is not empty)
add_frame(frames, frame) == Append(frames, frame)
remove_frame(frames) == Tail(frames)

simvars == <<nodes, current_time, event_queue, results, pc, duration,
             random_state, hist, other>>

InitThreads ==
  /\ IsSimulator(NewNetworkSimulator(<<>>))
  /\ random_state = NONE
  /\ other = NoOther
  /\ workers = [queue |-> WorkerQueue, thread |-> [t \in Threads |-> NewWorker]]

At(t, where) == workers.thread[t].pc = where

WorkerAppend(t) ==
  /\ At(t, "append")
  /\ \E size \in WorkerSizes :
       workers' = [workers EXCEPT
                     !.queue.frames = add_frame(@, [size |-> size]),
                     !.thread[t].pc = "test"]
  /\ UNCHANGED simvars

WorkerTest(t) ==
  /\ At(t, "test")
  /\ workers' = [workers EXCEPT
                   !.thread[t].pc = IF Len(workers.queue.frames) > 0
                                      THEN "remove" ELSE "update"]
  /\ UNCHANGED simvars

WorkerRemove(t) ==
  /\ At(t, "remove")
  /\ workers' = IF Len(workers.queue.frames) = 0
                  THEN [workers EXCEPT !.thread[t].pc = "failed"]
                  ELSE [workers EXCEPT !.queue.frames = remove_frame(@),
                                       !.thread[t].pc = "update"]
  /\ UNCHANGED simvars

\* the call, and time_delta = current_time - self.last_update_time
WorkerUpdate(t) ==
  /\ At(t, "update")
  /\ \E now \in WorkerTimes : \E flag \in BOOLEAN :
       workers' = [workers EXCEPT
                     !.thread[t].now = now,
                     !.thread[t].flag = flag,
                     !.thread[t].time_delta = now - workers.queue.last_update_time,
                     !.thread[t].pc = "credit"]
  /\ UNCHANGED simvars

\* the value the branches of update_credit give the credit, from the frames
\* and the credit as they are now and the time_delta read before
WorkerCredit(t) ==
  /\ At(t, "credit")
  /\ \E th \in {workers.thread[t]} :
       workers' = [workers EXCEPT
                     !.thread[t].acc =
                        update_credit([workers.queue EXCEPT
                                         !.last_update_time = th.now - th.time_delta],
                                      th.now, th.flag).credit,
                     !.thread[t].pc = "store"]
  /\ UNCHANGED simvars

WorkerStore(t) ==
  /\ At(t, "store")
  /\ workers' = [workers EXCEPT !.queue.credit = workers.thread[t].acc,
                                !.thread[t].pc = "stamp"]
  /\ UNCHANGED simvars

\* self.last_update_time = current_time, and the next iteration
WorkerStamp(t) ==
  /\ At(t, "stamp")
  /\ workers' = [workers EXCEPT
                   !.queue.last_update_time = workers.thread[t].now,
                   !.thread[t] =
                      [NewWorker EXCEPT
                         !.iter = workers.thread[t].iter + 1,
                         !.pc = IF workers.thread[t].iter + 1 < MaxIterations
                                  THEN "append" ELSE "done"]]
  /\ UNCHANGED simvars

NextThreads ==
  \E t \in Threads :
    \/ WorkerAppend(t)
    \/ WorkerTest(t)
    \/ WorkerRemove(t)
    \/ WorkerUpdate(t)
    \/ WorkerCredit(t)
    \/ WorkerStore(t)
    \/ WorkerStamp(t)

SpecThreads == InitThreads /\ [][NextThreads]_vars

(***************************************************************************)
(* Vocabulary of the properties.                                           *)
(***************************************************************************)
Queues(n) == nodes[n].cbs_queues
Eligible(q) == Len(q.frames) > 0 /\ q.credit >= 0
ValidlyConfigured(n, q) == 0 < q.idle_slope /\ q.idle_slope <= nodes[n].link_speed_bps
DeparturePending(n) ==
  \E i \in 1..Len(event_queue) :
    event_queue[i].type = "frame_departure" /\ event_queue[i].node = n
\* the last step called select_next_frame (and so update_credit) on node n
JustSelected(n) == hist.last.selected /\ hist.last.node = n
Returned == pc = "idle" /\ hist.runs > 0 /\ hist.last.op \in {"run", "break", "arrival", "departure", "measurement"}
Records == {results.frames[i] : i \in 1..Len(results.frames)}
FrameBits(f) == f.size * 8
\* the frames of queue p of node n as update_credit saw them in the last step
FramesAtUpdate(n, p) ==
  IF hist.last.op = "arrival" /\ hist.last.enqueued /\ hist.last.frame.priority = p
    THEN Append(hist.last.pre.cbs_queues[p].frames, hist.last.frame)
    ELSE hist.last.pre.cbs_queues[p].frames

(***************************************************************************)
(* C1.  Right after update_credit, lo_credit <= credit <= hi_credit, for   *)
(* every queue configured with 0 < idle_slope <= link speed.               *)
(***************************************************************************)
C1_CreditWithinBounds ==
  \A n \in NodeIds : \A p \in DOMAIN Queues(n) :
    (JustSelected(n) /\ ValidlyConfigured(n, Queues(n)[p]))
      => /\ Queues(n)[p].lo_credit <= Queues(n)[p].credit
         /\ Queues(n)[p].credit <= Queues(n)[p].hi_credit

RECURSIVE BitsOf(_, _)
BitsOf(S, p) ==
  IF S = {} THEN 0
  ELSE LET r == CHOOSE x \in S : TRUE
       IN  (IF r.priority = p THEN r.size * 8 ELSE 0) + BitsOf(S \ {r}, p)

Burst(q) == (q.hi_credit - q.lo_credit) + DefaultMaxFrameSize * 8

C3_ThroughputLimitedToIdleSlope ==
  \A n \in NodeIds : \A p \in DOMAIN Queues(n) :
    (/\ hist.runs = 1
     /\ ValidlyConfigured(n, Queues(n)[p])
     /\ Queues(n)[p].idle_slope < nodes[n].link_speed_bps)
      => BitsOf(Records, p) <= Queues(n)[p].idle_slope * current_time + Burst(Queues(n)[p])

(***************************************************************************)
(* C4.  Work conservation: between events, a node that is not transmitting *)
(* and owns an eligible queue has a Departure pending; a frame started by  *)
(* a handler has its Departure scheduled by that handler.                  *)
(***************************************************************************)
C4_WorkConserving ==
  \A n \in NodeIds :
    /\ (~nodes[n].is_transmitting /\ \E p \in DOMAIN Queues(n) : Eligible(Queues(n)[p]))
         => DeparturePending(n)
    /\ (JustSelected(n) /\ hist.last.started # NoFrame /\ pc # "crashed")
         => (nodes[n].is_transmitting /\ DeparturePending(n))

\* an arrival found the node idle and its frame went on the link at once
C4_Witness ==
  \E n \in NodeIds :
    /\ hist.last.op = "arrival"
    /\ JustSelected(n)
    /\ ~hist.last.pre.is_transmitting
    /\ hist.last.started # NoFrame
    /\ DeparturePending(n)

(***************************************************************************)
(* C5.  select_next_frame returns the head of the eligible queue of the    *)
(* highest priority, and None exactly when no queue is eligible after the  *)
(* credit update.                                                          *)
(***************************************************************************)
C5_HighestEligibleSelected ==
  \A n \in NodeIds :
    JustSelected(n) =>
      LET f == hist.last.started
      IN  IF f = NoFrame
            THEN \A p \in DOMAIN Queues(n) : ~Eligible(Queues(n)[p])
            ELSE /\ f.priority \in DOMAIN Queues(n)
                 /\ FramesAtUpdate(n, f.priority) # <<>>
                 /\ Head(FramesAtUpdate(n, f.priority)).uid = f.uid
                 /\ Queues(n)[f.priority].frames = Tail(FramesAtUpdate(n, f.priority))
                 /\ Queues(n)[f.priority].credit >= 0
                 /\ \A p \in DOMAIN Queues(n) :
                      p > f.priority => ~Eligible(Queues(n)[p])

\* a queue of lower priority was eligible too when the frame was chosen
C5_Witness ==
  \E n \in NodeIds :
    /\ JustSelected(n)
    /\ hist.last.started # NoFrame
    /\ \E p \in DOMAIN Queues(n) :
         p < hist.last.started.priority /\ Eligible(Queues(n)[p])

(***************************************************************************)
(* C6.  For every completed frame, arrival_time <= transmission_time <=    *)
(* completion_time.                                                        *)
(***************************************************************************)
C6_FrameTimesOrdered ==
  \A r \in Records :
    /\ r.arrival_time <= r.transmission_time
    /\ r.transmission_time <= r.completion_time

\* a frame that waited in its queue has completed
C6_Witness ==
  \E r \in Records :
    r.arrival_time < r.transmission_time /\ r.transmission_time < r.completion_time

InQueues(uid) ==
  \E n \in NodeIds : \E p \in DOMAIN Queues(n) :
    \E i \in 1..Len(Queues(n)[p].frames) : Queues(n)[p].frames[i].uid = uid

C8_QueueCapacity ==
  /\ \A n \in NodeIds : \A p \in DOMAIN Queues(n) :
       Len(Queues(n)[p].frames) <= MaxQueueSize
  /\ \A n \in NodeIds :
       (/\ hist.last.op = "arrival"
        /\ hist.last.node = n
        /\ hist.last.frame.priority \in DOMAIN Queues(n)
        /\ Len(hist.last.pre.cbs_queues[hist.last.frame.priority].frames) >= MaxQueueSize)
         => /\ Queues(n) = hist.last.pre.cbs_queues
            /\ hist.last.frame.dropped
            /\ ~hist.last.enqueued
            /\ nodes[n].statistics.frames_dropped
                 = hist.last.pre.statistics.frames_dropped + 1
            /\ pc # "crashed"
  /\ \A uid \in hist.dropped :
       /\ ~InQueues(uid)
       /\ \A n \in NodeIds : nodes[n].current_frame.uid # uid
       /\ \A r \in Records : r.uid # uid

\* an arrival has just been dropped at a full queue
C8_Witness ==
  /\ hist.last.op = "arrival"
  /\ hist.last.frame.dropped
  /\ hist.last.node \in NodeIds
  /\ Len(hist.last.pre.cbs_queues[hist.last.frame.priority].frames) = MaxQueueSize

(***************************************************************************)
(* C9.  When a run has returned, every dropped frame has a record with     *)
(* dropped = true in the results, and drop_rate is dropped over handled.   *)
(***************************************************************************)
C9_DroppedFramesRecorded ==
  Returned =>
    \A uid \in hist.dropped :
      \E r \in Records : r.uid = uid /\ r.dropped

(***************************************************************************)
(* C10.  Overload: after the run of a single cbr stream that overflowed    *)
(* its queue, the statistics report dropped frames (drop_rate > 0) and     *)
(* every latency is at most capacity times the transmission duration.      *)
(***************************************************************************)
C10_OverloadReported ==
  (/\ Returned
   /\ hist.gen_calls = 1
   /\ hist.runs = 1
   /\ hist.dropped # {})
    => /\ results.statistics.present
       /\ results.statistics.dropped_frames > 0
       /\ results.statistics.drop_rate_num > 0
       /\ \A r \in Records :
            r.latency * LinkSpeedMbps * Mega <= MaxQueueSize * r.size * 8

(***************************************************************************)
(* C11.  Under-load: a single cbr stream below the link rate and below the *)
(* idle slope of its validly configured queue, in the first run: no frame  *)
(* is dropped (drop_rate is 0), its queue never holds more than one        *)
(* waiting frame, and every latency is at most two transmission durations. *)
(***************************************************************************)
UnderLoad(req) ==
  /\ req.traffic_pattern = "cbr"
  /\ req.source \in NodeIds
  /\ req.priority \in DOMAIN Queues(req.source)
  /\ ValidlyConfigured(req.source, Queues(req.source)[req.priority])
  /\ req.shape.rate_mbps * Mega < Queues(req.source)[req.priority].idle_slope
  /\ req.shape.rate_mbps * Mega < nodes[req.source].link_speed_bps

SingleStream ==
  /\ hist.gen_calls = 1
  /\ hist.runs <= 1
  /\ hist.calls[1].op = "generate_traffic"

C11_UnderLoadNoDrop ==
  (SingleStream /\ UnderLoad(hist.calls[1].req)) =>
    /\ hist.dropped = {}
    /\ \A n \in NodeIds :
         /\ nodes[n].statistics.frames_dropped = 0
         /\ \A p \in DOMAIN Queues(n) : Len(Queues(n)[p].frames) <= 1
    /\ \A r \in Records :
         /\ ~r.dropped
         /\ r.latency * LinkSpeedMbps * Mega <= 2 * FrameBits(r)
    /\ results.statistics.present => results.statistics.drop_rate_num = 0

\* the run of an under-loaded stream has returned with two frames completed
C11_Witness ==
  /\ SingleStream
  /\ UnderLoad(hist.calls[1].req)
  /\ Returned
  /\ results.statistics.present
  /\ Len(results.frames) >= 2

(***************************************************************************)
(* C12.  The event heappop hands out precedes every event still pending:   *)
(* none is earlier, and of two arrivals with the same time the one         *)
(* scheduled first (the frame created first) comes first; no scheduling    *)
(* and no pop fails, whatever the kinds and payloads of the events.        *)
(***************************************************************************)
Pending == {event_queue[i] : i \in 1..Len(event_queue)}

C12_EventsInTimeThenFifoOrder ==
  /\ pc # "crashed"
  /\ hist.last.popped # NoEvent =>
       \A e \in Pending :
         /\ e.time >= hist.last.popped.time
         /\ (/\ e.time = hist.last.popped.time
             /\ e.type = "frame_arrival"
             /\ hist.last.popped.type = "frame_arrival")
              => e.frame.uid > hist.last.popped.frame.uid

(***************************************************************************)
(* C13.  No event is ever pending with a time earlier than the last time   *)
(* handed out (scheduling it is refused), and current_time never           *)
(* decreases, also over calls of generate_traffic and run after a run.     *)
(***************************************************************************)
C13_TimeNeverDecreases ==
  [][/\ current_time' >= current_time
     /\ \A i \in 1..Len(event_queue') : event_queue'[i].time >= current_time']_vars

(***************************************************************************)
(* C14.  No run starts with a queue whose idle_slope is not positive or    *)
(* whose send_slope is positive: configure_cbs has refused to create it.   *)
(***************************************************************************)
C14_BadParametersRejected ==
  hist.runs >= 1 =>
    \A n \in NodeIds : \A p \in DOMAIN Queues(n) :
      Queues(n)[p].idle_slope > 0 /\ Queues(n)[p].send_slope <= 0

C16_UnknownNodeIsFatal ==
  (hist.last.op = "arrival" /\ hist.last.popped.frame.source \notin NodeIds)
    => pc = "crashed"

(***************************************************************************)
(* C17.  Determinism: a second simulator with the configuration of the     *)
(* first, given the same calls, returns the same results (frame records in *)
(* order, snapshots, statistics).                                          *)
(***************************************************************************)
VisibleRecord(r) ==
  [frame_id |-> r.frame_id, priority |-> r.priority, size |-> r.size,
   arrival_time |-> r.arrival_time, transmission_time |-> r.transmission_time,
   completion_time |-> r.completion_time, latency |-> r.latency,
   dropped |-> r.dropped]

Visible(res) ==
  [frames |-> [i \in 1..Len(res.frames) |-> VisibleRecord(res.frames[i])],
   statistics |-> res.statistics,
   events |-> res.events]

C17_SameCallsSameResults ==
  (hist.life = 2 /\ pc = "idle" /\ hist.calls = hist.first.calls)
    => Visible(results) = Visible(hist.first.results)

(***************************************************************************)
(* C18.  When a run is over, every event scheduled with a time <= duration *)
(* has been handed out and processed, and no event later than duration has *)
(* been processed.                                                         *)
(***************************************************************************)
RunOver == hist.runs >= 1 /\ pc # "running" /\ hist.last.op # "generate_traffic"

C18_RunProcessesAllUpToDuration ==
  /\ RunOver => \A e \in Pending : e.time > duration
  /\ hist.last.op \in {"arrival", "departure", "measurement"}
       => hist.last.popped.time <= duration

(***************************************************************************)
(* C19.  The arrivals scheduled by a call of generate_traffic (here the    *)
(* first of a simulator) all have an arrival time <= its duration.         *)
(***************************************************************************)
C19_NoArrivalAfterDuration ==
  (hist.last.op = "generate_traffic" /\ hist.gen_calls = 1) =>
    \A e \in Pending :
      e.type = "frame_arrival" =>
        e.time <= hist.last.req.shape.duration

(***************************************************************************)
(* C20.  Every run that returns hands back statistics with every field,    *)
(* also when no frame completed.                                           *)
(***************************************************************************)
C20_StatisticsAlwaysComplete ==
  Returned => results.statistics.present

(***************************************************************************)
(* C23.  The utilization of a node in a Measurement snapshot never exceeds *)
(* 1: at every measurement time t > 0, 8 * bytes_transmitted <= link speed *)
(* * t.                                                                    *)
(***************************************************************************)
Snapshots == {results.events[i] : i \in 1..Len(results.events)}

C23_UtilizationAtMostOne ==
  \A s \in Snapshots : \A n \in DOMAIN s.nodes :
    s.time > 0 => s.nodes[n].util_num <= s.nodes[n].util_den

(***************************************************************************)
(* C24.  While a node transmits a frame taken from queue Q and Q still     *)
(* holds frames, the credit of Q decreases at send_slope: at the credit    *)
(* update made when the frame departs, the credit of Q is lower than it    *)
(* was when the transmission started.  The credit of a queue increases     *)
(* only over a time in which the node was not transmitting.                *)
(***************************************************************************)
C24_CreditDepletesWhileTransmitting ==
  \A n \in NodeIds : \A p \in DOMAIN Queues(n) :
    /\ (/\ hist.last.op = "departure"
        /\ hist.last.node = n
        /\ hist.last.completed.priority = p
        /\ FramesAtUpdate(n, p) # <<>>
        /\ Queues(n)[p].send_slope < 0
        /\ current_time > hist.last.pre.cbs_queues[p].last_update_time
        /\ hist.last.pre.cbs_queues[p].credit > Queues(n)[p].lo_credit)
         => Queues(n)[p].credit < hist.last.pre.cbs_queues[p].credit
    /\ (/\ JustSelected(n)
        /\ Queues(n)[p].credit > hist.last.pre.cbs_queues[p].credit)
         => ~hist.last.pre.is_transmitting

(***************************************************************************)
(* C25.  FIFO within a queue: for every queue, the frames it accepted, in  *)
(* the order of their acceptance, are the frames of the queue that went on *)
(* the link, in the order they started, followed by the frames the queue   *)
(* holds, head first.  So enqueue appends at the tail, only the head is    *)
(* removed, and only at a transmission start of the node.                  *)
(***************************************************************************)
RECURSIVE UidsOf(_, _, _)
UidsOf(tags, n, p) ==
  IF tags = <<>> THEN <<>>
  ELSE (IF Head(tags).node = n /\ Head(tags).priority = p
          THEN <<Head(tags).uid>> ELSE <<>>) \o UidsOf(Tail(tags), n, p)

QueueUids(n, p) ==
  [i \in 1..Len(Queues(n)[p].frames) |-> Queues(n)[p].frames[i].uid]

C25_FifoWithinQueue ==
  \A n \in NodeIds : \A p \in DOMAIN Queues(n) :
    UidsOf(hist.accepted, n, p) = UidsOf(hist.started, n, p) \o QueueUids(n, p)

\* a departure found two frames waiting in a queue: the older went on the
\* link, the newer is still held
C25_Witness ==
  \E n \in NodeIds : \E p \in DOMAIN Queues(n) :
    /\ hist.last.op = "departure"
    /\ hist.last.node = n
    /\ Len(hist.last.pre.cbs_queues[p].frames) >= 2
    /\ hist.last.started.priority = p
    /\ Len(Queues(n)[p].frames) >= 1

(***************************************************************************)
(* C26.  The Departure of a frame is scheduled at its transmission start   *)
(* plus size * 8 / link speed: so says every pending Departure, the        *)
(* transmission_end_time of its node and the handler that started the      *)
(* frame; the completion_time of every completed frame is its              *)
(* transmission start plus that duration.                                  *)
(***************************************************************************)
TransmissionTicks(size, n) == (size * 8) \div nodes[n].link_speed_bps

C26_DepartureAtStartPlusDuration ==
  /\ \A e \in Pending :
       e.type = "frame_departure" =>
         /\ e.time = e.frame.transmission_time + TransmissionTicks(e.frame.size, e.node)
         /\ TransmissionTicks(e.frame.size, e.node) * nodes[e.node].link_speed_bps
              = e.frame.size * 8
  /\ \A n \in NodeIds :
       /\ (JustSelected(n) /\ hist.last.started # NoFrame)
            => /\ hist.last.started.transmission_time = current_time
               /\ nodes[n].transmission_end_time
                    = current_time + TransmissionTicks(hist.last.started.size, n)
               /\ \E e \in Pending :
                    /\ e.type = "frame_departure"
                    /\ e.node = n
                    /\ e.frame.uid = hist.last.started.uid
                    /\ e.time = nodes[n].transmission_end_time
       /\ (hist.last.op = "departure" /\ hist.last.node = n)
            => /\ hist.last.completed.completion_time = current_time
               /\ hist.last.popped.frame.uid = hist.last.completed.uid
       /\ \A r \in Records :
            r.completion_time = r.transmission_time + TransmissionTicks(r.size, n)

\* a departure has completed a frame and started the next one
C26_Witness ==
  /\ hist.last.op = "departure"
  /\ hist.last.started # NoFrame
  /\ pc = "running"
  /\ \E r \in Records : r.uid = hist.last.completed.uid

(***************************************************************************)
(* C27.  Counters agree with the results: for each node, frames_transmitted *)
(* is the number of its frame records, bytes_transmitted the sum of their  *)
(* sizes, total_latency the sum and max_latency the maximum of their       *)
(* latencies; a completed frame has exactly one record; the records are in *)
(* non-decreasing completion time.                                         *)
(***************************************************************************)
RecordsOf(n) ==
  {i \in 1..Len(results.frames) :
     \E j \in 1..Len(hist.started) :
       hist.started[j].node = n /\ hist.started[j].uid = results.frames[i].uid}

RECURSIVE SumOver(_, _)
SumOver(S, f) ==
  IF S = {} THEN 0
  ELSE LET i == CHOOSE x \in S : TRUE IN f[i] + SumOver(S \ {i}, f)

CountersAgree ==
  \A n \in NodeIds :
    /\ nodes[n].statistics.frames_transmitted = Cardinality(RecordsOf(n))
    /\ nodes[n].statistics.bytes_transmitted
         = SumOver(RecordsOf(n), [i \in 1..Len(results.frames) |-> results.frames[i].size])
    /\ nodes[n].statistics.total_latency
         = SumOver(RecordsOf(n), [i \in 1..Len(results.frames) |-> results.frames[i].latency])
    /\ nodes[n].statistics.max_latency
         = MaxOf({0} \cup {results.frames[i].latency : i \in RecordsOf(n)})

OneRecordEach ==
  /\ \A i, j \in 1..Len(results.frames) :
       results.frames[i].uid = results.frames[j].uid => i = j
  /\ hist.last.completed # NoFrame
       => \E r \in Records : r.uid = hist.last.completed.uid
  /\ \A i \in 1..Len(results.frames) : \E n \in NodeIds : i \in RecordsOf(n)

RecordsInCompletionOrder ==
  \A i, j \in 1..Len(results.frames) :
    i < j => results.frames[i].completion_time <= results.frames[j].completion_time

C27_CountersAgreeWithResults ==
  /\ CountersAgree
  /\ OneRecordEach
  /\ RecordsInCompletionOrder

(***************************************************************************)
(* C28.  The step that processes a Measurement appends one snapshot, taken *)
(* at the time of the event, to the snapshot series and changes nothing    *)
(* else: not the nodes (queues, credits, last_update_time, transmitting    *)
(* state, counters), not the frame records, not the events still pending;  *)
(* the snapshots are in non-decreasing time.                               *)
(***************************************************************************)
Occurrences(q, e) == Cardinality({i \in 1..Len(q) : q[i] = e})

SnapshotsInTimeOrder ==
  \A i, j \in 1..Len(results.events) :
    i < j => results.events[i].time <= results.events[j].time

MeasurementOnlyAppends ==
  hist'.last.op = "measurement" =>
    /\ nodes' = nodes
    /\ results'.frames = results.frames
    /\ Len(results'.events) = Len(results.events) + 1
    /\ SubSeq(results'.events, 1, Len(results.events)) = results.events
    /\ results'.events[Len(results'.events)].time = hist'.last.popped.time
    /\ \A n \in NodeIds :
         /\ results'.events[Len(results'.events)].nodes[n].frames_transmitted
              = nodes[n].statistics.frames_transmitted
         /\ results'.events[Len(results'.events)].nodes[n].frames_dropped
              = nodes[n].statistics.frames_dropped
    /\ Len(event_queue') = Len(event_queue) - 1
    /\ \A e \in Pending :
         Occurrences(event_queue', e)
           = Occurrences(event_queue, e) - (IF e = hist'.last.popped THEN 1 ELSE 0)

C28_MeasurementOnlyAppendsSnapshot ==
  [][MeasurementOnlyAppends /\ SnapshotsInTimeOrder']_vars

(***************************************************************************)
(* C29.  Single frame in flight: between the events of a run, for every    *)
(* node, is_transmitting is true iff current_frame is set iff exactly one  *)
(* Departure of the node is pending; never two pending Departures of a     *)
(* node, never one of a node that is not transmitting.                     *)
(***************************************************************************)
PendingDepartures(n) ==
  {i \in 1..Len(event_queue) :
     event_queue[i].type = "frame_departure" /\ event_queue[i].node = n}

C29_SingleFrameInFlight ==
  pc = "running" =>
    \A n \in NodeIds :
      /\ nodes[n].is_transmitting <=> (nodes[n].current_frame # NoFrame)
      /\ nodes[n].is_transmitting <=> (Cardinality(PendingDepartures(n)) = 1)
      /\ Cardinality(PendingDepartures(n)) <= 1
      /\ \A i \in PendingDepartures(n) :
           event_queue[i].frame.uid = nodes[n].current_frame.uid

(***************************************************************************)
(* C30.  No preemption and no overlap: on a node, the intervals            *)
(* [transmission_time, completion_time] of two frames share at most an end *)
(* point, the frame on the link starts no earlier than every completed     *)
(* frame ended, and an arrival that finds the node transmitting starts no  *)
(* frame, whatever its priority: a frame starts only at a Departure or on  *)
(* an idle node.                                                           *)
(***************************************************************************)
NoOverlap ==
  \A n \in NodeIds :
    /\ \A i, j \in RecordsOf(n) :
         i # j => \/ results.frames[i].completion_time <= results.frames[j].transmission_time
                  \/ results.frames[j].completion_time <= results.frames[i].transmission_time
    /\ nodes[n].is_transmitting =>
         \A i \in RecordsOf(n) :
           results.frames[i].completion_time <= nodes[n].current_frame.transmission_time

NoPreemption ==
  \A n \in NodeIds :
    (hist.last.op = "arrival" /\ hist.last.node = n /\ hist.last.pre.is_transmitting)
      => /\ hist.last.started = NoFrame
         /\ nodes[n].current_frame = hist.last.pre.current_frame
         /\ nodes[n].transmission_end_time = hist.last.pre.transmission_end_time

C30_NoPreemptionNoOverlap == NoOverlap /\ NoPreemption

AllValidlyConfigured(n) ==
  \A p \in DOMAIN Queues(n) : ValidlyConfigured(n, Queues(n)[p])

C31_IdleNodeHasEmptyQueues ==
  pc = "running" =>
    \A n \in NodeIds :
      (AllValidlyConfigured(n) /\ ~nodes[n].is_transmitting)
        => \A p \in DOMAIN Queues(n) : Queues(n)[p].frames = <<>>

(***************************************************************************)
(* C32.  In a run with validly configured queues, update_credit is only    *)
(* called with is_transmitting = false (the node an Arrival selects on was *)
(* idle, a Departure selects after the transmission was completed), so no  *)
(* queue's credit is negative in any reachable state, and every queue that *)
(* holds a frame at a selection is eligible: the frame that starts is of   *)
(* the highest priority among the queues that hold frames.                 *)
(***************************************************************************)
C32_CreditNeverNegative ==
  \A n \in NodeIds :
    AllValidlyConfigured(n) =>
      /\ (JustSelected(n) /\ hist.last.op = "arrival") => ~hist.last.pre.is_transmitting
      /\ \A p \in DOMAIN Queues(n) : Queues(n)[p].credit >= 0
      /\ JustSelected(n) =>
           \A p \in DOMAIN Queues(n) :
             FramesAtUpdate(n, p) # <<>> =>
               /\ hist.last.started # NoFrame
               /\ hist.last.started.priority >= p

(***************************************************************************)
(* C33.  Frame conservation: at every point of a run, every frame whose    *)
(* Arrival has been processed is in exactly one place: waiting in a queue, *)
(* in flight on a node, recorded as completed in the results, or counted   *)
(* in frames_dropped; also a frame whose priority has no queue on its node *)
(* (it is not lost without a trace).                                       *)
(***************************************************************************)
Waiting(uid) ==
  Cardinality({<<n, p, i>> \in NodeIds \X (0..7) \X (1..MaxQueueSize) :
                 /\ p \in DOMAIN Queues(n)
                 /\ i <= Len(Queues(n)[p].frames)
                 /\ Queues(n)[p].frames[i].uid = uid})

InFlight(uid) == Cardinality({n \in NodeIds : nodes[n].current_frame.uid = uid})

Recorded(uid) == Cardinality({i \in 1..Len(results.frames) : results.frames[i].uid = uid})

CountedDropped(uid) == IF uid \in hist.dropped THEN 1 ELSE 0

C33_FrameConservation ==
  /\ \A uid \in hist.arrived :
       Waiting(uid) + InFlight(uid) + Recorded(uid) + CountedDropped(uid) = 1
  /\ \A n \in NodeIds :
       nodes[n].statistics.frames_dropped = Cardinality(hist.dropped)

(***************************************************************************)
(* C34.  Any two events can be ordered: two pending events with the same   *)
(* timestamp are comparable whatever their kinds and payloads (an Arrival  *)
(* with a Measurement or a Departure, two Arrivals of one priority), and   *)
(* no schedule_event and no pop has failed on such a pair.                 *)
(***************************************************************************)
Comparable(a, b) == EventLt(a, b) # "E" /\ EventLt(b, a) # "E"

C34_AnyTwoEventsOrdered ==
  /\ \A i, j \in 1..Len(event_queue) :
       (i # j /\ event_queue[i].time = event_queue[j].time)
         => Comparable(event_queue[i], event_queue[j])
  /\ pc # "crashed"

(***************************************************************************)
(* C35.  When run(duration) returns, no event has been discarded           *)
(* unprocessed: the event that was found to be later than duration is      *)
(* still pending, so every node that is still transmitting has its         *)
(* Departure pending, and a later run can complete the frame.              *)
(***************************************************************************)
C35_NoEventDiscarded ==
  Returned =>
    /\ hist.last.op = "break" => hist.last.popped \in Pending
    /\ \A n \in NodeIds :
         nodes[n].is_transmitting =>
           \E e \in Pending :
             /\ e.type = "frame_departure"
             /\ e.node = n
             /\ e.frame.uid = nodes[n].current_frame.uid

(***************************************************************************)
(* C36.  No starvation for finite traffic: with validly configured queues, *)
(* every frame accepted into a queue is eventually recorded in the results *)
(* as completed, unless the simulation has not been run to its end: no run *)
(* is in progress, and events are still pending or the last run returned   *)
(* at an event later than its duration.                                    *)
(***************************************************************************)
AcceptedAtValidNode(uid) ==
  \E i \in 1..Len(hist.accepted) :
    hist.accepted[i].uid = uid /\ AllValidlyConfigured(hist.accepted[i].node)

NotRunToEnd == pc = "idle" /\ (event_queue # <<>> \/ hist.last.op = "break")

C36_NoStarvation ==
  \A uid \in 1..MaxFrames :
    AcceptedAtValidNode(uid) ~> (Recorded(uid) = 1 \/ NotRunToEnd)

(***************************************************************************)
(* C37.  The step that processes an Arrival while its node is transmitting *)
(* only appends the frame to the tail of its queue, or, at capacity, marks *)
(* it dropped and adds one to frames_dropped: is_transmitting,             *)
(* current_frame, transmission_end_time, every queue's credit and          *)
(* last_update_time, the contents of all other queues, the counters of     *)
(* transmission, the frame records and the pending events, the Departure   *)
(* among them, are unchanged (the Arrival itself is taken off the heap).   *)
(***************************************************************************)
ArrivalWhileTransmitting(n) ==
  /\ hist'.last.op = "arrival"
  /\ hist'.last.node = n
  /\ nodes[n].is_transmitting

OnlyQueued(n, frame) ==
  \/ /\ hist'.last.enqueued
     /\ nodes' = [nodes EXCEPT ![n].cbs_queues[frame.priority].frames = Append(@, frame)]
  \/ /\ ~hist'.last.enqueued
     /\ frame.priority \in DOMAIN Queues(n)
     /\ Len(Queues(n)[frame.priority].frames) >= MaxQueueSize
     /\ hist'.last.frame = [frame EXCEPT !.dropped = TRUE]
     /\ nodes' = [nodes EXCEPT ![n].statistics.frames_dropped = @ + 1]
  \/ /\ ~hist'.last.enqueued
     /\ frame.priority \notin DOMAIN Queues(n)
     /\ nodes' = nodes

OnlyPopped(popped) ==
  /\ Len(event_queue') = Len(event_queue) - 1
  /\ \A e \in Pending :
       Occurrences(event_queue', e)
         = Occurrences(event_queue, e) - (IF e = popped THEN 1 ELSE 0)

C37_ArrivalWhileTransmittingOnlyQueues ==
  [][\A n \in NodeIds :
       ArrivalWhileTransmitting(n) =>
         /\ OnlyQueued(n, hist'.last.popped.frame)
         /\ OnlyPopped(hist'.last.popped)
         /\ results' = results
         /\ hist'.last.started = NoFrame
         /\ ~hist'.last.selected
         /\ pc' # "crashed"]_vars

\* an Arrival found its node transmitting and its queue holding a frame,
\* and was queued behind it
C37_Witness ==
  /\ hist.last.op = "arrival"
  /\ hist.last.node \in NodeIds
  /\ hist.last.pre.is_transmitting
  /\ hist.last.enqueued
  /\ hist.last.frame.priority \in DOMAIN nodes[hist.last.node].cbs_queues
  /\ Len(nodes[hist.last.node].cbs_queues[hist.last.frame.priority].frames) >= 2
  /\ DeparturePending(hist.last.node)

(***************************************************************************)
(* C38.  When an Arrival is accepted at a node that is not transmitting    *)
(* (validly configured queues), the frame that starts transmission in that *)
(* step is the arrived frame itself, and its transmission start time is    *)
(* its arrival time: no queuing delay.                                     *)
(***************************************************************************)
C38_ArrivalAtIdleNodeStartsAtOnce ==
  \A n \in NodeIds :
    (/\ hist.last.op = "arrival"
     /\ hist.last.node = n
     /\ hist.last.enqueued
     /\ ~hist.last.pre.is_transmitting
     /\ AllValidlyConfigured(n))
      => /\ hist.last.started # NoFrame
         /\ hist.last.started.uid = hist.last.frame.uid
         /\ hist.last.started.transmission_time = hist.last.frame.arrival_time

(***************************************************************************)
(* C39.  Frame ids are monotonic over a simulator: two distinct frames     *)
(* created by generate_traffic, also by different calls, have different    *)
(* ids, the frame created later having the larger id; so the frame records *)
(* of the results never contain two frames with the same id.               *)
(***************************************************************************)
FramesKnown ==
  {event_queue[i].frame : i \in {j \in 1..Len(event_queue) : event_queue[j].type # "measurement"}}
    \cup {nodes[n].current_frame : n \in {m \in NodeIds : nodes[m].is_transmitting}}
    \cup UNION {{Queues(n)[p].frames[i] : i \in 1..Len(Queues(n)[p].frames)} :
                  <<n, p>> \in {<<m, q>> \in NodeIds \X (0..7) : q \in DOMAIN Queues(m)}}

C39_FrameIdsMonotonic ==
  /\ \A f, g \in FramesKnown : f.uid < g.uid => f.id < g.id
  /\ \A i, j \in 1..Len(results.frames) :
       results.frames[i].uid # results.frames[j].uid
         => results.frames[i].frame_id # results.frames[j].frame_id

=============================================================================
